---- MODULE Spec2Model ----
(***************************************************************************)
(* A model of soetl/kmeans (src/src/main.rs): the k-means engine           *)
(* (KMeans::new, init_centers, eval, eval_centers), the Dunn ("dann")      *)
(* index and the selection sweep of main.                                  *)
(*                                                                         *)
(* Numbers.  The program computes in f64 on tables of small integers.  A   *)
(* centroid is kept as the pair (column sums, row count) of its cluster;   *)
(* its f64 coordinates are the correctly rounded quotients.  Two distances *)
(* (or two scores) that differ as exact numbers differ by far more than    *)
(* the rounding error of their f64 evaluation, so their order is read off  *)
(* the exact values; two that are equal as exact numbers are evaluated in  *)
(* f64, operation by operation, and compared as the program compares them. *)
(* A Dunn index is kept as the pair (min squared distance, max squared     *)
(* distance) with the sentinels f64::MAX / f64::MIN kept as such.          *)
(*                                                                         *)
(* Order of the clusters.  DataFrame::partition_by (the unstable variant)  *)
(* returns the groups in the iteration order of a hash map; the order is   *)
(* not fixed by the program, so an iteration may produce the groups in any *)
(* order.  The rows inside a group keep the order of the table.            *)
(***************************************************************************)
EXTENDS Integers, Sequences, FiniteSets, TLC

\* ---------------------------------------------------------------- bounds
MaxPoints == 4
MaxCoord == 3
MaxSeedLen == 3
MaxStep == 6

\* ------------------------------------------------------- program constants
\* number of feature columns x, y, z
Dim == 3
\* first candidate k of the sweep (for i in 2..15_u8)
SweepStart == 2
\* exclusive end of the sweep
SweepEnd == 15
\* rows of the tables on which the whole sweep can run: random seeding
\* never returns when k exceeds the number of rows
SweepRows == SweepEnd - 1

\* f64: bits of the significand
MantBits == 53
\* naturals of any size are sequences of limbs of LimbBits bits, lowest first
LimbBits == 15
LimbBase == 32768
\* extra bits a quotient or a root is computed with before it is rounded
GuardBits == 56
\* bits of a quotient or root found per step of the search
DigitBits == 3
\* a mean with at most this many fractional bits is exact in f64, and so is
\* every sum of squares taken from it
ExactFracBits == 4

VARIABLES
    df,            \* the input table: a sequence of rows [n, p]
    pc,            \* engine position: new, sample, ready, loop, done
    mode,          \* none | explicit | random: which arm of init_centers ran
    io,            \* KMeans.io
    n_clusters,    \* argument of KMeans::new while the constructor runs
    explicit_ids,  \* center_ids when Some(ids)
    seed_ids,      \* history: ids of the rows that became the first centers
    centers,       \* KMeans.centers
    clusters,      \* KMeans.clusters
    clusters_last, \* eval's clusters_last
    step,          \* eval's step
    mpc,           \* main's position: engine (no driver), sweep, final, chart, exit
    i,             \* main's loop variable
    dann_indexes,  \* main's Vec of (k, score)
    max,           \* main's max = (k, score)
    printed,       \* the line the latest turn of the sweep printed:
                   \* <<k, cluster count>>, or <<>> when it recorded a score
    files          \* the files written under ./result

engine_vars == <<df, pc, mode, io, n_clusters, explicit_ids, seed_ids,
                 centers, clusters, clusters_last, step>>
main_vars == <<mpc, i, dann_indexes, max, printed>>
vars == <<df, pc, mode, io, n_clusters, explicit_ids, seed_ids,
          centers, clusters, clusters_last, step,
          mpc, i, dann_indexes, max, printed, files>>

\* ---------------------------------------------------------------- helpers
Range(s) == {s[j] : j \in DOMAIN s}

\* the value of Body at the value of e, with e evaluated once
With(e, Body(_)) == CHOOSE r \in {Body(v) : v \in {e}} : TRUE

Abs(n) == IF n < 0 THEN 0 - n ELSE n

RECURSIVE SumSeq(_, _)
SumSeq(s, j) == IF j = 0 THEN 0 ELSE s[j] + SumSeq(s, j - 1)

\* the members of a set of numbers, in increasing order
SeqOfSet(S) ==
    [j \in 1..Cardinality(S) |-> CHOOSE x \in S : Cardinality({y \in S : y < x}) = j - 1]

\* the rows of t at the positions in idx, in the order of t
RowsAt(t, idx) ==
    LET sq == SeqOfSet(idx)
    IN  [j \in DOMAIN sq |-> t[sq[j]]]

Ids(t) == {t[j].n : j \in DOMAIN t}

\* ------------------------------------------------------------ input tables
Point(x) == <<x, 0, 0>>

\* tables of 1..MaxPoints rows, ids counted from 0 or from 1, on a line
LineTables ==
    UNION {
      UNION {
        { [j \in 1..N |-> [n |-> base + j - 1, p |-> Point(xs[j])]]
          : xs \in {f \in [1..N -> 0..MaxCoord] :
                      \A a \in 1..N, b \in 1..N : a < b => f[a] <= f[b]} }
        : base \in {0, 1} }
      : N \in 1..MaxPoints }

\* the four-point scenario of the specification
ScenarioTable ==
    << [n |-> 0, p |-> <<0, 0, 0>>], [n |-> 1, p |-> <<0, 0, 1>>],
       [n |-> 2, p |-> <<10, 10, 10>>], [n |-> 3, p |-> <<10, 10, 11>>] >>

\* a table whose rows are not in coordinate order
ShuffledTable ==
    << [n |-> 0, p |-> <<3, 0, 0>>], [n |-> 1, p |-> <<0, 1, 0>>],
       [n |-> 2, p |-> <<1, 0, 2>>], [n |-> 3, p |-> <<0, 0, 0>>] >>

\* four rows on a line with a gap before the last: from the seeds {0, 1, 2}
\* the second iteration moves a row while the first cluster stays
ShortcutTable == [j \in 1..4 |-> [n |-> j - 1, p |-> Point(IF j = 4 THEN 4 ELSE j - 1)]]

\* seven rows on a line, three of them with ids a seed list can name: from
\* the seeds {0, 1} the clusters drift for five iterations
DriftTable ==
    [j \in 1..7 |-> [n |-> IF j <= 3 THEN j - 1 ELSE j + 6,
                     p |-> Point(<<0, 1, 2, 3, 5, 8, 13>>[j])]]

\* six rows on a line, two of them with ids a seed list can name: the row at
\* 5 is as far from the mean of {0, 3, 5} as from the mean of {6, 7, 9}, and
\* the two f64 distances differ
RoundingTable ==
    [j \in 1..6 |-> [n |-> <<10, 1, 12, 13, 4, 15>>[j], p |-> Point(<<0, 3, 5, 6, 7, 9>>[j])]]

\* eight rows in a plane: four on the axes, the rows CrossSeeds names, and
\* the four corners between them, each as far from one axis row as from the
\* next
CrossBase == 20
CrossTable ==
    [j \in 1..8 |-> [n |-> CrossBase + j - 1,
                     p |-> << <<1, 0, 0>>, <<-1, 0, 0>>, <<0, 1, 0>>, <<0, -1, 0>>,
                              <<1, 1, 0>>, <<1, -1, 0>>, <<-1, 1, 0>>, <<-1, -1, 0>> >>[j]]]

Tables ==
    LineTables \cup {ScenarioTable, ShuffledTable, ShortcutTable, DriftTable, RoundingTable,
                     CrossTable}

\* tables of SweepRows rows, on which the sweep of main runs to its end:
\* every row at the origin; rows at 0, 1, 2, 3 of a line, with ids the
\* sampler can draw, and ten more rows at 4 with other ids; rows at 0, 1, 2
\* with ids the sampler can draw, six more rows at 0 and five at 5
FlatTable == [j \in 1..SweepRows |-> [n |-> j - 1, p |-> Point(0)]]
TieTable ==
    [j \in 1..SweepRows |-> [n |-> IF j <= 4 THEN j - 1 ELSE SweepRows + j,
                              p |-> Point(IF j <= 4 THEN j - 1 ELSE 4)]]
FallTable ==
    [j \in 1..SweepRows |-> [n |-> IF j <= 3 THEN j - 1 ELSE SweepRows + j,
                              p |-> Point(IF j <= 3 THEN j - 1 ELSE IF j <= 9 THEN 0 ELSE 5)]]

MainTables == LineTables \cup {FlatTable, TieTable, FallTable}

\* --------------------------------------------------------- f64 arithmetic
\* A natural number is the sequence of its limbs, a non-negative f64 the
\* record [m, e] of value m * 2^e with m of exactly MantBits bits (or zero).
\* The operations round to nearest, ties to even, as the hardware does; the
\* values of the program are far from overflow and from subnormals.
\* a sequence of limbs without its leading zero limbs
RECURSIVE Trim(_)
Trim(a0) ==
    With(a0, LAMBDA a :
        IF a = <<>> THEN a
        ELSE IF a[Len(a)] = 0 THEN Trim(SubSeq(a, 1, Len(a) - 1)) ELSE a)

RECURSIVE NatOf(_)
NatOf(n0) ==
    With(n0, LAMBDA n :
        IF n = 0 THEN <<>> ELSE <<n % LimbBase>> \o NatOf(n \div LimbBase))

Limb(a, j) == IF j <= Len(a) THEN a[j] ELSE 0

RECURSIVE AddFrom(_, _, _, _)
AddFrom(a, b, j, c) ==
    IF j > Len(a) /\ j > Len(b) THEN (IF c = 0 THEN <<>> ELSE <<c>>)
    ELSE With(Limb(a, j) + Limb(b, j) + c,
              LAMBDA t : <<t % LimbBase>> \o AddFrom(a, b, j + 1, t \div LimbBase))
NatAdd(a0, b0) ==
    With(a0, LAMBDA a : With(b0, LAMBDA b : Trim(AddFrom(a, b, 1, 0))))

RECURSIVE SubFrom(_, _, _, _)
SubFrom(a, b, j, c) ==
    IF j > Len(a) THEN <<>>
    ELSE With(a[j] - Limb(b, j) - c,
              LAMBDA t : IF t < 0 THEN <<t + LimbBase>> \o SubFrom(a, b, j + 1, 1)
                                  ELSE <<t>> \o SubFrom(a, b, j + 1, 0))
NatSub(a0, b0) ==
    With(a0, LAMBDA a : With(b0, LAMBDA b : Trim(SubFrom(a, b, 1, 0))))

RECURSIVE CmpAt(_, _, _)
CmpAt(a, b, j) ==
    IF j = 0 THEN 0
    ELSE IF a[j] # b[j] THEN (IF a[j] < b[j] THEN -1 ELSE 1)
    ELSE CmpAt(a, b, j - 1)
NatCmp(a0, b0) ==
    With(a0, LAMBDA a : With(b0, LAMBDA b :
        IF Len(a) # Len(b) THEN (IF Len(a) < Len(b) THEN -1 ELSE 1)
        ELSE CmpAt(a, b, Len(a))))

RECURSIVE MulSmallFrom(_, _, _, _)
MulSmallFrom(a, k, j, c) ==
    IF j > Len(a) THEN (IF c = 0 THEN <<>> ELSE <<c>>)
    ELSE With(a[j] * k + c,
              LAMBDA t : <<t % LimbBase>> \o MulSmallFrom(a, k, j + 1, t \div LimbBase))
NatMulSmall(a0, k) == With(a0, LAMBDA a : Trim(MulSmallFrom(a, k, 1, 0)))

RECURSIVE MulFrom(_, _, _)
MulFrom(a, b, j) ==
    IF j > Len(b) THEN <<>>
    ELSE With(MulSmallFrom(a, b[j], 1, 0), LAMBDA lo :
         With(<<0>> \o MulFrom(a, b, j + 1), LAMBDA hi : AddFrom(lo, hi, 1, 0)))
NatMul(a0, b0) ==
    With(a0, LAMBDA a : With(b0, LAMBDA b : Trim(MulFrom(a, b, 1))))

RECURSIVE DivSmallFrom(_, _, _)
DivSmallFrom(a, d, j) ==
    IF j > Len(a) THEN [q |-> <<>>, r |-> 0]
    ELSE With(DivSmallFrom(a, d, j + 1),
              LAMBDA up : [q |-> <<(up.r * LimbBase + a[j]) \div d>> \o up.q,
                           r |-> (up.r * LimbBase + a[j]) % d])
NatDivSmall(a0, d) ==
    With(a0, LAMBDA a : With(DivSmallFrom(a, d, 1), LAMBDA qr : [q |-> Trim(qr.q), r |-> qr.r]))

NatShl(a0, n) ==
    With(a0, LAMBDA a :
        IF a = <<>> THEN a
        ELSE [j \in 1..(n \div LimbBits) |-> 0] \o NatMulSmall(a, 2 ^ (n % LimbBits)))
NatShr(a0, n) ==
    With(a0, LAMBDA a :
        IF Len(a) <= n \div LimbBits THEN <<>>
        ELSE NatDivSmall(SubSeq(a, n \div LimbBits + 1, Len(a)), 2 ^ (n % LimbBits)).q)

BitLen(a0) ==
    With(a0, LAMBDA a :
        IF a = <<>> THEN 0
        ELSE LimbBits * (Len(a) - 1)
               + (CHOOSE k \in 1..LimbBits : 2 ^ (k - 1) <= a[Len(a)] /\ a[Len(a)] < 2 ^ k))

\* the largest q with q * d <= n, found DigitBits bits at a time from bit j
RECURSIVE DivFrom(_, _, _, _)
DivFrom(n, d, q, j) ==
    IF j < 0 THEN q
    ELSE With(NatAdd(q, NatShl(NatOf(Cardinality(
                  {c \in 1..(2 ^ DigitBits - 1) :
                     NatCmp(NatMul(NatAdd(q, NatShl(NatOf(c), j)), d), n) <= 0})), j)),
              LAMBDA q2 : DivFrom(n, d, q2, j - DigitBits))

\* the largest r with r * r <= n
RECURSIVE SqrtFrom(_, _, _)
SqrtFrom(n, r, j) ==
    IF j < 0 THEN r
    ELSE With(NatAdd(r, NatShl(NatOf(Cardinality(
                  {c \in 1..(2 ^ DigitBits - 1) :
                     With(NatAdd(r, NatShl(NatOf(c), j)),
                          LAMBDA cand : NatCmp(NatMul(cand, cand), n) <= 0)})), j)),
              LAMBDA r2 : SqrtFrom(n, r2, j - DigitBits))

F64Zero == [m |-> <<>>, e |-> 0]

\* m * 2^e (and a little more when sticky) rounded to nearest, ties to even
F64Round(m0, e, sticky0) ==
    With(m0, LAMBDA m : With(sticky0, LAMBDA sticky : With(BitLen(m), LAMBDA L :
        IF L = 0 THEN F64Zero
        ELSE IF L <= MantBits THEN [m |-> NatShl(m, MantBits - L), e |-> e - (MantBits - L)]
        ELSE With(NatShr(m, L - MantBits), LAMBDA q :
             With(NatCmp(NatSub(m, NatShl(q, L - MantBits)), NatShl(<<1>>, L - MantBits - 1)),
                  LAMBDA c :
             With(IF c = 1 \/ (c = 0 /\ (sticky \/ q[1] % 2 = 1)) THEN NatAdd(q, <<1>>) ELSE q,
                  LAMBDA q2 :
                  IF BitLen(q2) > MantBits
                  THEN [m |-> NatShr(q2, 1), e |-> e + (L - MantBits) + 1]
                  ELSE [m |-> q2, e |-> e + (L - MantBits)]))))))

F64OfNat(n) == F64Round(NatOf(n), 0, FALSE)

F64Add(a0, b0) ==
    With(a0, LAMBDA a : With(b0, LAMBDA b :
        IF a.m = <<>> THEN b
        ELSE IF b.m = <<>> THEN a
        ELSE With(IF a.e < b.e THEN a.e ELSE b.e, LAMBDA el :
                  F64Round(NatAdd(NatShl(a.m, a.e - el), NatShl(b.m, b.e - el)), el, FALSE))))

F64AbsSub(a0, b0) ==
    With(a0, LAMBDA a : With(b0, LAMBDA b :
        IF a.m = <<>> THEN b
        ELSE IF b.m = <<>> THEN a
        ELSE With(IF a.e < b.e THEN a.e ELSE b.e, LAMBDA el :
             With(NatShl(a.m, a.e - el), LAMBDA x :
             With(NatShl(b.m, b.e - el), LAMBDA y :
                  IF NatCmp(x, y) >= 0 THEN F64Round(NatSub(x, y), el, FALSE)
                                       ELSE F64Round(NatSub(y, x), el, FALSE))))))

F64Square(a0) == With(a0, LAMBDA a : F64Round(NatMul(a.m, a.m), 2 * a.e, FALSE))

F64Sqrt(a0) ==
    With(a0, LAMBDA a :
        IF a.m = <<>> THEN a
        ELSE With(NatShl(a.m, GuardBits + (a.e % 2)), LAMBDA n :
             With(SqrtFrom(n, <<>>, GuardBits - 2), LAMBDA r :
                  F64Round(r, (a.e - GuardBits - (a.e % 2)) \div 2, NatMul(r, r) # n))))

F64Div(a0, b0) ==
    With(a0, LAMBDA a : With(b0, LAMBDA b :
        IF a.m = <<>> THEN a
        ELSE With(NatShl(a.m, GuardBits), LAMBDA n :
             With(DivFrom(n, b.m, <<>>, GuardBits - 2), LAMBDA q :
                  F64Round(q, a.e - b.e - GuardBits, NatMul(q, b.m) # n)))))

F64Less(a0, b0) ==
    With(a0, LAMBDA a : With(b0, LAMBDA b :
        IF b.m = <<>> THEN FALSE
        ELSE IF a.m = <<>> THEN TRUE
        ELSE a.e < b.e \/ (a.e = b.e /\ NatCmp(a.m, b.m) = -1)))

\* eval_centers: s.sum::<f64>() / s.len() as f64, for a column sum s and a
\* row count c below LimbBase; the sign is kept by the caller
F64Mean(s, c) ==
    With(NatDivSmall(NatShl(NatOf(Abs(s)), GuardBits + LimbBits), c), LAMBDA qr :
         F64Round(qr.q, 0 - (GuardBits + LimbBits), qr.r # 0))

\* |col - lit(center)| for the integer x of the column
F64AbsDiff(x, s, c) ==
    IF x = 0 \/ s = 0 \/ (x > 0) = (s > 0)
    THEN F64AbsSub(F64OfNat(Abs(x)), F64Mean(s, c))
    ELSE F64Add(F64OfNat(Abs(x)), F64Mean(s, c))

\* the distance expression of eval: ((dx^2 + dy^2) + dz^2).sqrt()
F64Dist(p, ctr) ==
    F64Sqrt(F64Add(F64Add(F64Square(F64AbsDiff(p[1], ctr.s[1], ctr.c)),
                          F64Square(F64AbsDiff(p[2], ctr.s[2], ctr.c))),
                   F64Square(F64AbsDiff(p[3], ctr.s[3], ctr.c))))

\* min / max of dann_index for sqrt(min2) and sqrt(max2)
F64Score(min2, max2) == F64Div(F64Sqrt(F64OfNat(min2)), F64Sqrt(F64OfNat(max2)))

\* ------------------------------------------------------------ init_centers
\* a centroid is kept as the column sums and the row count of its source
CenterOfRow(r) == [s |-> r.p, c |-> 1]

\* df.filter(col("n").is_in(ids)).select(exclude n), row by row
CentersOf(t, ids) ==
    LET rows == RowsAt(t, {j \in DOMAIN t : t[j].n \in ids})
    IN  [j \in DOMAIN rows |-> CenterOfRow(rows[j])]

SeedRows(t, ids) == Ids(t) \cap ids

\* ------------------------------------------------------------------- eval
\* numerator of the squared distance of point p to centroid ctr, over ctr.c^2
Dist2Num(p, ctr) ==
    SumSeq([d \in 1..Dim |-> (ctr.c * p[d] - ctr.s[d]) * (ctr.c * p[d] - ctr.s[d])], Dim)

\* the two centroids have the same means, hence the same f64 coordinates
SameMeans(a, b) == \A d \in 1..Dim : a.s[d] * b.c = b.s[d] * a.c

\* the means of the centroid have at most ExactFracBits fractional bits
ExactMeans(ctr) == \A d \in 1..Dim : (ctr.s[d] * 2 ^ ExactFracBits) % ctr.c = 0

\* dist(p, a) < dist(p, b) on the f64 distances.  Exact distances that
\* differ keep their order in f64; equal ones stay equal when the f64
\* evaluation is exact or runs on the same numbers, and are otherwise
\* evaluated in f64.
DistLess(p, a, b) ==
    With(Dist2Num(p, a) * b.c * b.c, LAMBDA x :
    With(Dist2Num(p, b) * a.c * a.c, LAMBDA y :
        IF x # y THEN x < y
        ELSE IF SameMeans(a, b) \/ (ExactMeans(a) /\ ExactMeans(b)) THEN FALSE
        ELSE F64Less(F64Dist(p, a), F64Dist(p, b))))

\* the inner loop over the distance columns: index of the first minimum,
\* 0-based; with no centroid the index stays 0
RECURSIVE MinDistIdx(_, _, _, _)
MinDistIdx(p, ctrs, j, best) ==
    IF j > Len(ctrs) THEN best
    ELSE IF best = 0 \/ DistLess(p, ctrs[j], ctrs[best])
         THEN MinDistIdx(p, ctrs, j + 1, j)
         ELSE MinDistIdx(p, ctrs, j + 1, best)

ClusterTag(p, ctrs) ==
    IF Len(ctrs) = 0 THEN 0 ELSE MinDistIdx(p, ctrs, 1, 0) - 1

ClusterTags(t, ctrs) == [j \in DOMAIN t |-> ClusterTag(t[j].p, ctrs)]

\* a split that loses the last row of the table
GroupRows_SkipLast(t, tags, g) == RowsAt(t, {j \in DOMAIN t : j < Len(t) /\ tags[j] = g})

\* the rows of one group of partition_by, in table order
GroupRows(t, tags, g) == RowsAt(t, {j \in DOMAIN t : tags[j] = g})

\* the orders in which partition_by may return the groups
GroupOrders(tags) ==
    LET G == Range(tags)
    IN  {f \in [1..Cardinality(G) -> G] :
           \A a, b \in 1..Cardinality(G) : a # b => f[a] # f[b]}

PartitionBy(t, tags, order) == [j \in DOMAIN order |-> GroupRows(t, tags, order[j])]

\* eval_centers: the column means of every cluster
Mean(cl) ==
    [s |-> [d \in 1..Dim |-> SumSeq([j \in DOMAIN cl |-> cl[j].p[d]], Len(cl))],
     c |-> Len(cl)]

EvalCenters(cls) == [j \in DOMAIN cls |-> Mean(cls[j])]

\* the double loop that counts equal pairs of frames
EqualPairs(cur, last) ==
    Cardinality({pr \in (DOMAIN cur) \X (DOMAIN last) : cur[pr[1]] = last[pr[2]]})

\* exit checks that compare the two lists of frames position by position
Returns_Positional(ctrs, cur, last) ==
    IF Len(ctrs) <= 1 THEN TRUE
    ELSE IF Len(cur) # Len(last) THEN FALSE
    ELSE cur = last

\* the exit checks after eval_centers; TRUE when eval returns
Returns(ctrs, cur, last) ==
    IF Len(ctrs) <= 1 THEN TRUE
    ELSE IF Len(cur) # Len(last) THEN FALSE
    ELSE IF EqualPairs(cur, last) = Len(cur) THEN TRUE
    ELSE cur[1] = last[1]

\* ------------------------------------------------------------ the engine
\* explicit seed lists offered to KMeans::new: lists of up to MaxSeedLen ids,
\* repeated and absent ids included, in non-decreasing order (is_in does not
\* read the order of the list)
IdSpace == 0..MaxPoints
\* the list that names the four axis rows of CrossTable
CrossSeeds == [j \in 1..4 |-> CrossBase + j - 1]
SeedLists ==
    UNION { {f \in [1..L -> IdSpace] : \A a \in 1..L, b \in 1..L : a < b => f[a] <= f[b]}
            : L \in 0..MaxSeedLen } \cup {CrossSeeds}
\* the k passed with a seed list: its length, or one more (a list too short)
ExplicitK(ids) == {Len(ids), Len(ids) + 1}
\* the k passed without a seed list, up to one more than any table of
\* LineTables has rows
KChoices == 0..(MaxPoints + 1)

Height(t) == Len(t)

\* f64::MIN, the score main's max starts from, and that start value
F64Min == [min2 |-> -2, max2 |-> -2]
NoMax == [k |-> 0, score |-> F64Min]

EngineInit ==
    /\ pc = "new"
    /\ mode = "none"
    /\ io = FALSE
    /\ n_clusters = 0
    /\ explicit_ids = <<>>
    /\ seed_ids = {}
    /\ centers = <<>>
    /\ clusters = <<>>
    /\ clusters_last = <<>>
    /\ step = 0

\* KMeans::new(df, k, Some(ids), io, _): init_centers takes the rows whose n
\* is in ids; k is not consulted on this arm
NewExplicit(k, ids, b) ==
    /\ pc = "new"
    /\ mode' = "explicit"
    /\ io' = b
    /\ n_clusters' = k
    /\ explicit_ids' = ids
    /\ centers' = CentersOf(df, Range(ids))
    /\ seed_ids' = SeedRows(df, Range(ids))
    /\ clusters' = <<>>
    /\ pc' = "ready"
    /\ UNCHANGED <<df, clusters_last, step>>
    /\ UNCHANGED <<main_vars, files>>

\* KMeans::new(df, k, None, io, _) up to the while loop of init_centers; with
\* k = 0 the loop body never runs and the filter keeps no row
NewRandom(k, b) ==
    /\ pc = "new"
    /\ mode' = "random"
    /\ io' = b
    /\ n_clusters' = k
    /\ clusters' = <<>>
    /\ IF k = 0
       THEN /\ centers' = CentersOf(df, {})
            /\ seed_ids' = {}
            /\ pc' = "ready"
       ELSE /\ pc' = "sample"
            /\ UNCHANGED <<centers, seed_ids>>
    /\ UNCHANGED <<df, explicit_ids, clusters_last, step>>

\* the sets `while center_ids.len() < n_clusters { insert(gen_range(0..height)) }`
\* can end with: the loop ends when the set holds n_clusters different
\* samples, and never when 0..height has fewer
SampleSets(height, k) == {T \in SUBSET (0..(height - 1)) : Cardinality(T) = k}

\* the sampling loop to its end, and the filter that follows it
Sample ==
    /\ pc = "sample"
    /\ \E center_ids \in SampleSets(Height(df), n_clusters) :
         /\ centers' = CentersOf(df, center_ids)
         /\ seed_ids' = SeedRows(df, center_ids)
    /\ pc' = "ready"
    /\ UNCHANGED <<df, mode, io, n_clusters, explicit_ids, clusters, clusters_last, step>>
    /\ UNCHANGED <<main_vars, files>>

\* eval before its loop; the constructor's arguments are gone by now
EvalStart ==
    /\ pc = "ready"
    /\ clusters' = <<df>>
    /\ step' = 1
    /\ pc' = "loop"
    /\ n_clusters' = 0
    /\ explicit_ids' = <<>>
    /\ UNCHANGED <<df, mode, io, seed_ids, centers, clusters_last>>
    /\ UNCHANGED <<main_vars, files>>

\* the files one iteration writes when io is set: <step>__dist.csv and
\* <step>_<i>_cluster.csv
IterationFiles(st, cls) ==
    {[kind |-> "dist", step |-> st, idx |-> 0]}
      \cup {[kind |-> "cluster", step |-> st, idx |-> j - 1] : j \in DOMAIN cls}

\* one turn of eval's loop: tag every row with its nearest centroid, split
\* the table by tag (in one of the orders partition_by may give), take the
\* means, then run the exit checks.  The singleton set names a value once.
\* The model follows a run for MaxStep turns.
Iterate ==
    /\ pc = "loop"
    /\ step <= MaxStep
    /\ \E tags \in {ClusterTags(df, centers)} :
       \E order \in GroupOrders(tags) :
         clusters' = PartitionBy(df, tags, order)
    /\ clusters_last' = clusters
    /\ centers' = EvalCenters(clusters')
    /\ step' = step + 1
    /\ files' = IF io THEN files \cup IterationFiles(step, clusters') ELSE files
    /\ pc' = IF Returns(centers', clusters', clusters) THEN "done" ELSE "loop"
    /\ UNCHANGED <<df, mode, io, n_clusters, explicit_ids, seed_ids>>
    /\ UNCHANGED main_vars

Init ==
    /\ df \in Tables
    /\ EngineInit
    /\ mpc = "engine"
    /\ i = 0
    /\ dann_indexes = <<>>
    /\ max = NoMax
    /\ printed = <<>>
    /\ files = {}

\* a caller other than main builds an engine with random seeds
CallNewRandom(k, b) == NewRandom(k, b) /\ UNCHANGED <<main_vars, files>>

Next ==
    \/ \E ids \in SeedLists : \E k \in ExplicitK(ids) : NewExplicit(k, ids, FALSE)
    \/ \E k \in KChoices : CallNewRandom(k, FALSE)
    \/ Sample
    \/ EvalStart
    \/ Iterate

Spec == Init /\ [][Next]_vars

\* ------------------------------------------------------------- dann_index
\* squared Euclidean distance of two rows
RowDist2(a, b) ==
    SumSeq([d \in 1..Dim |-> (a.p[d] - b.p[d]) * (a.p[d] - b.p[d])], Dim)

\* an f64 sentinel that no distance has replaced (f64::MAX for min,
\* f64::MIN for max)
Unset == -1

SetMin(S) == IF S = {} THEN Unset ELSE CHOOSE x \in S : \A y \in S : x <= y
SetMax(S) == IF S = {} THEN Unset ELSE CHOOSE x \in S : \A y \in S : x >= y

\* distances of two different positions of one cluster
IntraDist2(cls) ==
    UNION { {RowDist2(cls[c][j], cls[c][k]) :
               <<j, k>> \in {pr \in (DOMAIN cls[c]) \X (DOMAIN cls[c]) : pr[1] # pr[2]}}
            : c \in DOMAIN cls }

\* distances of the rows of two different clusters
InterDist2(cls) ==
    UNION { {RowDist2(cls[pr[1]][k], cls[pr[2]][l]) : k \in DOMAIN cls[pr[1]], l \in DOMAIN cls[pr[2]]}
            : pr \in {q \in (DOMAIN cls) \X (DOMAIN cls) : q[1] # q[2]} }

\* dann_index returns min / max; the model keeps the squares of the two
dann_index(cls) == [min2 |-> SetMin(InterDist2(cls)), max2 |-> SetMax(IntraDist2(cls))]

\* the f64 that min / max evaluates to, by kind:
\*   low   f64::MIN itself (the start value of main's max)
\*   m1    f64::MAX / f64::MIN = -1
\*   neg   min / f64::MIN with min > 0: negative, tiny
\*   zero  0 / max, or 0 / f64::MIN = -0.0
\*   pos   a positive finite quotient
\*   big   f64::MAX / max with max > 0
\*   inf   a positive number over 0
\*   nan   0 / 0
ScoreKind(sc) ==
    IF sc.min2 = Unset /\ sc.max2 = Unset THEN "m1"
    ELSE IF sc.max2 = Unset THEN (IF sc.min2 = 0 THEN "zero" ELSE "neg")
    ELSE IF sc.max2 = 0 THEN (IF sc.min2 = 0 THEN "nan" ELSE "inf")
    ELSE IF sc.min2 = Unset THEN "big"
    ELSE IF sc.min2 = 0 THEN "zero"
    ELSE "pos"

Kind(sc) == IF sc = F64Min THEN "low" ELSE ScoreKind(sc)

KindRank(kd) ==
    CASE kd = "low" -> 0 [] kd = "m1" -> 1 [] kd = "neg" -> 2 [] kd = "zero" -> 3
      [] kd = "pos" -> 4 [] kd = "big" -> 5 [] kd = "inf" -> 6 [] kd = "nan" -> 7

\* a > b for two positive finite quotients: quotients that differ as
\* exact numbers keep their order in f64, the others are evaluated in f64
PosGT(a, b) ==
    With(a.min2 * b.max2, LAMBDA x : With(b.min2 * a.max2, LAMBDA y :
        IF x # y THEN x > y
        ELSE IF a = b THEN FALSE
        ELSE F64Less(F64Score(b.min2, b.max2), F64Score(a.min2, a.max2))))

\* a > b on f64
ScoreGT(a, b) ==
    LET ka == Kind(a)
        kb == Kind(b)
    IN  /\ ka # "nan"
        /\ kb # "nan"
        /\ \/ KindRank(ka) > KindRank(kb)
           \/ /\ ka = kb
              /\ CASE ka = "neg" -> a.min2 < b.min2
                   [] ka = "pos" -> PosGT(a, b)
                   [] ka = "big" -> a.max2 < b.max2
                   [] OTHER -> FALSE

\* ------------------------------------------------------------------- main
\* dann_indexes.iter().for_each(|(x, y)| if *y > max.1 { max = (*x, *y) })
RECURSIVE FoldMax(_, _, _)
FoldMax(pairs, j, m) ==
    IF j > Len(pairs) THEN m
    ELSE IF ScoreGT(pairs[j].score, m.score)
         THEN FoldMax(pairs, j + 1, pairs[j])
         ELSE FoldMax(pairs, j + 1, m)

\* a fold that replaces max on `>=`: the last of equal scores wins
RECURSIVE FoldMaxGE(_, _, _)
FoldMaxGE(pairs, j, m) ==
    IF j > Len(pairs) THEN m
    ELSE IF ~ScoreGT(m.score, pairs[j].score)
         THEN FoldMaxGE(pairs, j + 1, pairs[j])
         ELSE FoldMaxGE(pairs, j + 1, m)

SelectMax_LastWins(pairs) == FoldMaxGE(pairs, 1, NoMax)

SelectMax(pairs) == FoldMax(pairs, 1, NoMax)

MainInit ==
    /\ df \in MainTables
    /\ EngineInit
    /\ mpc = "sweep"
    /\ i = SweepStart
    /\ dann_indexes = <<>>
    /\ max = NoMax
    /\ printed = <<>>
    /\ files = {}

\* let kmeans = KMeans::new(df.clone(), i, None, false, ..) in the sweep
SweepNew ==
    /\ mpc = "sweep"
    /\ i < SweepEnd
    /\ NewRandom(i, FALSE)
    /\ UNCHANGED <<main_vars, files>>

\* the body of the sweep after eval returned: print or score, next i
SweepRecord ==
    /\ mpc = "sweep"
    /\ pc = "done"
    /\ IF Len(clusters) # i
       THEN /\ printed' = <<i, Len(clusters)>>
            /\ UNCHANGED dann_indexes
       ELSE /\ dann_indexes' = Append(dann_indexes, [k |-> i, score |-> dann_index(clusters)])
            /\ printed' = <<>>
    /\ i' = i + 1
    /\ pc' = "new"
    /\ mode' = "none"
    /\ centers' = <<>>
    /\ clusters' = <<>>
    /\ clusters_last' = <<>>
    /\ seed_ids' = {}
    /\ step' = 0
    /\ UNCHANGED <<df, io, n_clusters, explicit_ids, mpc, max, files>>

\* after the sweep: the fold over dann_indexes and KMeans::new at max.0
\* with io set
SelectAndNew ==
    /\ mpc = "sweep"
    /\ pc = "new"
    /\ i = SweepEnd
    /\ max' = SelectMax(dann_indexes)
    /\ NewRandom(max'.k, TRUE)
    /\ mpc' = "final"
    /\ UNCHANGED <<i, dann_indexes, printed, files>>

\* the loop that sinks every cluster of the final run to res_<i>_cluster.csv
Export ==
    /\ mpc = "final"
    /\ pc = "done"
    /\ files' = files \cup {[kind |-> "res", step |-> 0, idx |-> j - 1] : j \in DOMAIN clusters}
    /\ mpc' = "chart"
    /\ UNCHANGED <<engine_vars, i, dann_indexes, max, printed>>

\* the chart of dann_indexes, drawn to dann_index.png; main ends
Chart ==
    /\ mpc = "chart"
    /\ files' = files \cup {[kind |-> "chart", step |-> 0, idx |-> 0]}
    /\ mpc' = "exit"
    /\ UNCHANGED <<engine_vars, i, dann_indexes, max, printed>>

MainNext ==
    \/ SweepNew
    \/ Sample
    \/ EvalStart
    \/ Iterate
    \/ SweepRecord
    \/ SelectAndNew
    \/ Export
    \/ Chart

SpecMain == MainInit /\ [][MainNext]_vars

\* ------------------------------------------------------- engine properties
\* the ids of the members of a cluster, and of every cluster of a partition
Members(cl) == {cl[j].n : j \in DOMAIN cl}
MemberSets(cls) == {Members(cls[j]) : j \in DOMAIN cls}

\* the point ids are unique in every input table
UniqueIds(t) == \A a, b \in DOMAIN t : a # b => t[a].n # t[b].n

\* C1: in a returned partition every input row lies in exactly one cluster,
\* once, and the clusters together hold exactly the rows of the table.
C1_ExactCover ==
    (pc = "done" /\ UniqueIds(df)) =>
        /\ \A r \in DOMAIN df :
             Cardinality({c \in DOMAIN clusters : df[r] \in Range(clusters[c])}) = 1
        /\ UNION {Range(clusters[c]) : c \in DOMAIN clusters} = Range(df)
        /\ SumSeq([c \in DOMAIN clusters |-> Len(clusters[c])], Len(clusters)) = Len(df)

C1_Witness ==
    /\ pc = "done"
    /\ Len(clusters) >= 3
    /\ \E c \in DOMAIN clusters : Len(clusters[c]) >= 2

\* C2: the number of centroids never grows from one iteration to the next,
\* the first iteration included (c_0 is the number of initial centroids).
C2_CountNonIncreasing == [][pc = "loop" => Len(centers') <= Len(centers)]_vars

\* C4: with explicit seeds, a first assignment into two or more clusters
\* does not return, and a second assignment into the same clusters returns
\* (so eval returns after exactly two iterations); on the four-point scenario
\* with seeds {0, 2} eval returns {0,1} and {2,3} after two iterations.
C4_TwoIterations ==
    /\ (mode = "explicit" /\ step = 2 /\ Len(clusters) >= 2) => pc = "loop"
    /\ (mode = "explicit" /\ step = 3 /\ Len(clusters_last) >= 2
          /\ MemberSets(clusters) = MemberSets(clusters_last)) => pc = "done"
    /\ (df = ScenarioTable /\ mode = "explicit" /\ seed_ids = {0, 2} /\ pc = "done")
          => (step = 3 /\ MemberSets(clusters) = {{0, 1}, {2, 3}})

C4_Witness ==
    /\ df = ScenarioTable
    /\ mode = "explicit"
    /\ seed_ids = {0, 2}
    /\ pc = "done"
    /\ step = 3
    /\ clusters # clusters_last

\* an explicit seed list is valid: k ids, all different, all in the table
ValidSeeds(ids, k, t) ==
    /\ Len(ids) = k
    /\ \A a, b \in DOMAIN ids : a # b => ids[a] # ids[b]
    /\ Range(ids) \subseteq Ids(t)

\* C6: random seeding with k above the number of rows ends in an error: it
\* neither samples nor produces centroids.
C6_InsufficientPoints ==
    (mode = "random" /\ n_clusters > Height(df)) => pc \notin {"sample", "ready"}

\* C7: an engine built from explicit seeds was built from exactly k distinct
\* ids of the table and has k centroids.
C7_InvalidSeedRejected ==
    (mode = "explicit" /\ pc = "ready") =>
        (ValidSeeds(explicit_ids, n_clusters, df) /\ Len(centers) = n_clusters)

\* C9: a returned partition of two or more clusters has the clusters of the
\* iteration before it.
C9_ReturnedIsStable ==
    (pc = "done" /\ Len(clusters) >= 2) => MemberSets(clusters) = MemberSets(clusters_last)

\* C10: once eval's loop is entered it returns: no run goes on for ever from
\* partition to partition.  The tags, the means and the exit checks of a
\* turn read only the clusters of the turn before and of the turn before
\* that, so a turn that stays in the loop and restores the clusters of two
\* turns before, in the same order, can be followed by the same two turns
\* again, for ever: no turn that stays in the loop restores them.
C10_NoAlternation ==
    [][(pc = "loop" /\ pc' = "loop") => clusters' # clusters_last]_vars

\* --------------------------------------------------------- main properties
\* k is the first entry of pairs that no entry exceeds
IsFirstMax(pairs, k) ==
    \E a \in DOMAIN pairs :
        /\ pairs[a].k = k
        /\ \A b \in DOMAIN pairs :
             /\ ~ScoreGT(pairs[b].score, pairs[a].score)
             /\ b < a => ScoreGT(pairs[a].score, pairs[b].score)

\* C3: a candidate whose partition has another cluster count than k adds no
\* score, one with k clusters adds the pair of k, and the final engine is
\* built for the first k that holds the maximum of the recorded scores.
C3_Selection ==
    [][ /\ (mpc = "sweep" /\ pc = "done" /\ Len(clusters) # i)
             => (dann_indexes' = dann_indexes /\ i' = i + 1)
        /\ (mpc = "sweep" /\ pc = "done" /\ Len(clusters) = i)
             => (/\ Len(dann_indexes') = Len(dann_indexes) + 1
                 /\ dann_indexes'[Len(dann_indexes')].k = i
                 /\ i' = i + 1)
        /\ (mpc = "sweep" /\ mpc' = "final" /\ dann_indexes # <<>>)
             => IsFirstMax(dann_indexes, n_clusters') ]_vars

\* the sweep dropped a candidate and recorded three: the first scores less
\* than the second, the second and the third tie for the maximum, and the
\* final engine is being built for the second
C3_Witness ==
    /\ mpc = "final"
    /\ pc \in {"sample", "ready"}
    /\ printed # <<>>
    /\ \E a, b, c \in DOMAIN dann_indexes :
         /\ a < b
         /\ b < c
         /\ dann_indexes[b].k = n_clusters
         /\ ScoreGT(dann_indexes[b].score, dann_indexes[a].score)
         /\ ~ScoreGT(dann_indexes[b].score, dann_indexes[c].score)
         /\ ~ScoreGT(dann_indexes[c].score, dann_indexes[b].score)

\* C5: every recorded score is a number of [0, infinity): not negative, not
\* infinite, not NaN.
C5_ScoreInRange ==
    \A j \in DOMAIN dann_indexes : Kind(dann_indexes[j].score) \in {"zero", "pos"}

\* C8: when the sweep recorded no pair, no result file is written.
C8_NoCandidateIsFatal ==
    (i = SweepEnd /\ dann_indexes = <<>>) => \A f \in files : f.kind # "res"

====
